---- MODULE Spec2Model ----
(***************************************************************************)
(* State-machine model of the raspi-todo server (server-rs): the SQLite    *)
(* store with its two tables, the HTTP mutation handlers of routes.rs, the *)
(* tokio broadcast hub of ws.rs and the per-connection relay of            *)
(* handle_socket.                                                          *)
(***************************************************************************)
EXTENDS Integers, Sequences, FiniteSets, TLC

(***************************************************************************)
(* Bounds of the model.                                                    *)
(***************************************************************************)
\* capacity of the broadcast channel: ws.rs:44 builds it with 256 slots;
\* the model keeps the ring semantics and scales the number of slots
Capacity == 1
\* number of HTTP requests accepted in one behaviour
MaxReqs == 2
\* clock ticks per second: Utc::now() has sub-second resolution while
\* SQLite's CURRENT_TIMESTAMP is cut to whole seconds
TicksPerSec == 2
\* number of storage statements that may fail in one behaviour
MaxFaults == 1
\* number of messages the abstract publisher of WsSpec sends
MaxPub == 3

(***************************************************************************)
(* Value sets.                                                             *)
(***************************************************************************)
NULL == "NULL"
\* None of an Option<DateTime<Utc>>
NoTime == -1

\* the ticks of the wall clock a behaviour runs through: the second half of
\* one second and the first half of the next when TicksPerSec is 2
Clock == 1..2

TodoIds == {"t1", "t2", "t3"}
\* the ids Uuid::new_v4 may return to a create
Uuids == TodoIds \cup {"t4"}
CatIds == {"k1", "k2"}
Reqs == {1, 2}
Conns == {"c1", "c2"}

(***************************************************************************)
(* Rows.                                                                   *)
(***************************************************************************)
\* the columns of table todos (db.rs CREATE TABLE todos)
TodoRow(id, title, category_id, sort_order, at) ==
    [id |-> id, title |-> title, note |-> NULL, status |-> "todo",
     priority |-> 1, due_at |-> NoTime, tags |-> NULL,
     category_id |-> category_id, sort_order |-> sort_order,
     created_at |-> at, updated_at |-> at, deleted |-> 0]

\* the columns of table categories (db.rs CREATE TABLE categories)
CategoryRow(id, name, at) ==
    [id |-> id, name |-> name, color |-> NULL, description |-> NULL,
     sort_order |-> 0, created_at |-> at, updated_at |-> at, deleted |-> 0]

\* Utc::now() of chrono: the clock at full resolution
UtcNow(clock) == clock

\* SQLite's CURRENT_TIMESTAMP: 'YYYY-MM-DD HH:MM:SS', whole seconds
CURRENT_TIMESTAMP(clock) == (clock \div TicksPerSec) * TicksPerSec

(***************************************************************************)
(* The broadcast hub: tokio::sync::broadcast as used by WsHub.             *)
(* pos is the channel's tail position, buf the retained messages (the      *)
(* newest at the end, at most Capacity of them), rx_cnt the number of      *)
(* live receivers.                                                         *)
(***************************************************************************)
HubNew == [pos |-> 0, buf |-> << >>, rx_cnt |-> 0]

\* the result of hub.tx.send: Err(SendError) when no receiver is subscribed
SendResult(h) == IF h.rx_cnt = 0 THEN "Err" ELSE "Ok"

\* a channel that keeps every message until each receiver has taken it
HubSendUnbounded(h, m) ==
    IF h.rx_cnt = 0 THEN h
    ELSE [h EXCEPT !.pos = @ + 1, !.buf = Append(@, m)]

\* hub.tx.send(m): with no receiver the value is handed back and nothing is
\* stored; otherwise the message takes the slot at the tail position,
\* overwriting the oldest one when the ring is full
HubSend(h, m) ==
    IF h.rx_cnt = 0 THEN h
    ELSE [h EXCEPT !.pos = @ + 1,
                   !.buf = IF Len(@) < Capacity THEN Append(@, m)
                           ELSE Append(Tail(@), m)]

\* hub.tx.subscribe(): one more receiver
HubSubscribe(h) == [h EXCEPT !.rx_cnt = @ + 1]

\* a new receiver that starts at the oldest retained message
SubscribeCursorOldest(h) == h.pos - Len(h.buf)

\* the cursor of the receiver subscribe() returns: the tail position
SubscribeCursor(h) == h.pos

\* a receiver that does not move on after a value
NextCursorStuck(next) == next

\* recv() moves the cursor to the next position after a value
NextCursor(next) == next + 1

\* dropping a Receiver
HubUnsubscribe(h) == [h EXCEPT !.rx_cnt = @ - 1]

\* position of the oldest message still in the ring
HubOldest(h) == h.pos - Len(h.buf)

\* the message stored for position p, HubOldest(h) <= p < h.pos
HubAt(h, p) == h.buf[p - HubOldest(h) + 1]

\* rx.recv() outcome for a receiver whose cursor is next
RecvOutcome(h, next) ==
    IF next = h.pos THEN "Empty"
    ELSE IF h.pos - next > Capacity THEN "Lagged"
    ELSE "Value"

(***************************************************************************)
(* Requests and their inputs.                                              *)
(***************************************************************************)
\* TodoCreate bodies (title is required, the other fields are optional)
TodoCreates ==
    << [title |-> "C"], [title |-> "C", priority |-> 2, due_at |-> 1] >>

\* TodoUpdate bodies: a field is present iff it is in the record's domain
TodoUpdates == << [title |-> "B"], [category_id |-> "k1"], [deleted |-> 1] >>

\* query strings of PATCH /api/todos/{id}/status
StatusQueries == << [status |-> "done"], [other |-> "x"] >>

\* CategoryCreate and CategoryUpdate bodies
CategoryCreates == << [name |-> "N"] >>
CategoryUpdates == << [name |-> "M"], [deleted |-> 1] >>

\* query strings of GET /api/todos: ListParams, both fields optional
ListQueries ==
    << << >>, [status |-> "done"], [include_deleted |-> TRUE],
       [include_deleted |-> FALSE],
       [status |-> "todo", include_deleted |-> TRUE] >>

\* bodies of POST /api/todos/reorder: sequences of ReorderItem
ReorderBatches ==
    << << >>,
       << [id |-> "t1", sort_order |-> 1], [id |-> "t2", sort_order |-> 2] >>,
       << [id |-> "t2", sort_order |-> 1], [id |-> "t3", sort_order |-> 2],
          [id |-> "t2", sort_order |-> 3] >> >>

\* a request slot that holds no request
Idle ==
    [pc |-> "idle", op |-> "none", id |-> NULL, body |-> << >>,
     t |-> << >>, items |-> << >>, i |-> 0, tx |-> << >>, result |-> "none",
     pre |-> << >>, post |-> << >>, committed |-> FALSE, subs |-> 0,
     rows |-> << >>, status |-> 0]

(***************************************************************************)
(* State.                                                                  *)
(***************************************************************************)
VARIABLES
    todos,    \* table todos: id -> row
    cats,     \* table categories: id -> row
    now,      \* the wall clock, in ticks
    dbLock,   \* the request whose transaction holds SQLite's write lock, or 0
    req,      \* the handler running in each request slot
    started,  \* number of requests accepted so far
    faults,   \* number of storage failures injected so far
    hub,      \* the broadcast channel of WsHub
    sent,     \* every hub.tx.send made so far, in order
    conn,     \* the WebSocket connections
    boot      \* the server process: where main is, and the seeding loop

vars ==
    << todos, cats, now, dbLock, req, started, faults, hub, sent, conn, boot >>

\* a connection slot before its upgrade; rx tells whether the Receiver is
\* alive, next is its cursor, held the message the relay is sending, log
\* what the peer has received, since the number of sends made before the
\* subscription
NoConn ==
    [hs |-> "none", send |-> "none", recv |-> "none", peer |-> "open",
     rx |-> FALSE, next |-> 0, held |-> << >>, log |-> << >>, since |-> 0]

\* main once init_pool has returned and the router serves requests; runs
\* counts the restarts of the process so far
Serving(runs) == [pc |-> "up", n |-> 0, runs |-> runs]

\* the store a boot finds and the hub WsHub::new builds
Init ==
    /\ todos = [id \in {"t1", "t2"} |->
                  IF id = "t1" THEN TodoRow("t1", "A", "k1", 0, 0)
                  ELSE TodoRow("t2", "A", NULL, 0, 0)]
    /\ cats = [id \in {"k1"} |-> CategoryRow("k1", "General", 0)]
    /\ now = 1
    /\ dbLock = 0
    /\ req = [r \in Reqs |-> Idle]
    /\ started = 0
    /\ faults = 0
    /\ hub = HubNew
    /\ sent = << >>
    /\ conn = [c \in Conns |-> NoConn]
    /\ boot = Serving(0)

\* the clock advances
Tick ==
    /\ now + 1 \in Clock
    /\ now' = now + 1
    /\ UNCHANGED << todos, cats, dbLock, req, started, faults, hub, sent, conn, boot >>

(***************************************************************************)
(* ws.rs: handle_socket and its two tasks.                                 *)
(***************************************************************************)
\* connections are accepted in the order of their names
Earlier(d, c) == (d = "c1" /\ c = "c2")

\* `while let Ok(msg) = rx.recv().await`: the loop goes on only on a value
RelayContinues(outcome) == outcome = "Value"

\* socket.split(), hub.tx.subscribe(), and the two tokio::spawn calls
handle_socket(c) ==
    /\ conn[c].hs = "none"
    /\ \A d \in Conns : Earlier(d, c) => conn[d].hs # "none"
    /\ hub' = HubSubscribe(hub)
    /\ conn' = [conn EXCEPT ![c] = [@ EXCEPT !.hs = "select", !.send = "recv",
                                            !.recv = "running", !.rx = TRUE,
                                            !.next = SubscribeCursor(hub),
                                            !.since = Len(sent)]]
    /\ UNCHANGED << todos, cats, now, dbLock, req, started, faults, sent, boot >>

\* send_task: rx.recv().await returns
send_task_recv(c) ==
    /\ conn[c].send = "recv"
    /\ LET o == RecvOutcome(hub, conn[c].next) IN
         /\ o # "Empty"
         /\ IF RelayContinues(o)
            THEN /\ conn' = [conn EXCEPT ![c] =
                       [@ EXCEPT !.send = "sending", !.next = NextCursor(@),
                                 !.held = << [pos |-> conn[c].next,
                                              msg |-> HubAt(hub, conn[c].next)] >>]]
                 /\ hub' = hub
            ELSE \* Err(Lagged): the loop ends, the task drops rx and sender
                 /\ conn' = [conn EXCEPT ![c] =
                       [@ EXCEPT !.send = "done", !.rx = FALSE]]
                 /\ hub' = HubUnsubscribe(hub)
    /\ UNCHANGED << todos, cats, now, dbLock, req, started, faults, sent, boot >>

\* a relay that goes on to the next message after a send has failed
send_task_send_continue(c) ==
    /\ conn[c].send = "sending"
    /\ conn' = [conn EXCEPT ![c] =
          [@ EXCEPT !.send = "recv", !.held = << >>,
                    !.log = IF conn[c].peer = "open"
                            THEN Append(@, conn[c].held[1]) ELSE @]]
    /\ hub' = hub
    /\ UNCHANGED << todos, cats, now, dbLock, req, started, faults, sent, boot >>

\* send_task: sender.send(Message::Text(msg)).await returns
send_task_send(c) ==
    /\ conn[c].send = "sending"
    /\ IF conn[c].peer = "open"
       THEN /\ conn' = [conn EXCEPT ![c] =
                  [@ EXCEPT !.send = "recv", !.held = << >>,
                            !.log = Append(@, conn[c].held[1])]]
            /\ hub' = hub
       ELSE \* is_err(): break, the task drops rx and sender
            /\ conn' = [conn EXCEPT ![c] =
                  [@ EXCEPT !.send = "done", !.held = << >>, !.rx = FALSE]]
            /\ hub' = HubUnsubscribe(hub)
    /\ UNCHANGED << todos, cats, now, dbLock, req, started, faults, sent, boot >>

\* the peer closes the connection
peer_close(c) ==
    /\ conn[c].hs # "none"
    /\ conn[c].peer = "open"
    /\ conn' = [conn EXCEPT ![c].peer = "closed"]
    /\ UNCHANGED << todos, cats, now, dbLock, req, started, faults, hub, sent, boot >>

\* recv_task: the peer sends a frame, receiver.next().await yields
\* Some(Ok(_msg)) and the loop body drops it
recv_task_next(c) ==
    /\ conn[c].recv = "running"
    /\ conn[c].peer = "open"
    /\ UNCHANGED vars

\* recv_task: receiver.next().await yields None or an error, the loop ends
recv_task_end(c) ==
    /\ conn[c].recv = "running"
    /\ conn[c].peer = "closed"
    /\ conn' = [conn EXCEPT ![c].recv = "done"]
    /\ UNCHANGED << todos, cats, now, dbLock, req, started, faults, hub, sent, boot >>

\* tokio::select! over the two JoinHandles: handle_socket returns when either
\* task has finished; dropping a JoinHandle detaches the task, it keeps running
select_return(c) ==
    /\ conn[c].hs = "select"
    /\ conn[c].send = "done" \/ conn[c].recv = "done"
    /\ conn' = [conn EXCEPT ![c].hs = "returned"]
    /\ UNCHANGED << todos, cats, now, dbLock, req, started, faults, hub, sent, boot >>

(***************************************************************************)
(* routes.rs: what the handlers share.                                     *)
(***************************************************************************)
Has(body, f) == f \in DOMAIN body

\* the slot the next accepted request runs in: the lowest free one
FreeSlot(r) ==
    /\ req[r].pc \in {"idle", "done"}
    /\ \A q \in Reqs : q < r => req[q].pc \notin {"idle", "done"}

\* the router takes requests once main serves
Accept(r) == boot.pc = "up" /\ started < MaxReqs /\ FreeSlot(r)

\* a request just accepted; subs is the number of receivers subscribed then
New(op) == [Idle EXCEPT !.op = op, !.subs = hub.rx_cnt]

\* a response that reports a storage failure as the client's fault
into_response_client_fault(result) ==
    IF result = "Ok" THEN 200
    ELSE IF result = "NotFound" THEN 404
    ELSE 400

\* ApiError::into_response, and 200 for Ok(Json(..))
into_response(result) ==
    IF result = "Ok" THEN 200
    ELSE IF result = "NotFound" THEN 404
    ELSE IF result = "BadRequest" THEN 400
    ELSE 500

\* a handler that has returned: its locals are gone, its response stays
\* (a failed handler also keeps the statement it failed at)
Done(op, id, result) ==
    [Idle EXCEPT !.pc = "done", !.op = op, !.id = id, !.result = result,
                 !.status = into_response(result)]

\* a single statement on the pool waits while a transaction holds the
\* write lock of the database
CanWrite(r) == dbLock = 0 \/ dbLock = r

\* a handler that turns a failed send into a failed request
RespondSendChecked(sendResult) == IF sendResult = "Err" THEN "Sqlx" ELSE "Ok"

\* `let _ = st.hub.tx.send(..); Ok(Json(..))`: the result of the send is
\* dropped and the handler answers Ok
Respond(sendResult) == "Ok"

\* the last two statements of every mutation handler
Publish(r, ev) ==
    /\ hub' = HubSend(hub, ev)
    /\ sent' = Append(sent, [msg |-> ev, res |-> SendResult(hub)])
    /\ req' = [req EXCEPT ![r] =
                 Done(req[r].op, req[r].id, Respond(SendResult(hub)))]

\* a transaction dropped without commit that leaves its writes in place
RollbackKeepsWrites(tbl, tx) == tx

\* `.await?` inside reorder returns early and drops tx: sqlx rolls the
\* transaction back, the table is what it was
Rollback(tbl, tx) == tbl

\* tx.commit(): the writes of the transaction become the table
Commit(tbl, tx) == tx

\* a storage statement of a running handler fails: `.await?` returns
\* Err(ApiError::Sqlx) at once, which drops an open transaction
statement_fails(r) ==
    /\ req[r].pc \in {"write", "count", "tx"}
    /\ faults < MaxFaults
    /\ faults' = faults + 1
    /\ req' = [req EXCEPT ![r] =
                 [Done(req[r].op, req[r].id, "Sqlx") EXCEPT
                    !.items = req[r].items, !.i = req[r].i]]
    /\ IF dbLock = r
       THEN /\ todos' = Rollback(todos, req[r].tx)
            /\ dbLock' = 0
       ELSE UNCHANGED << todos, dbLock >>
    /\ UNCHANGED << cats, now, started, hub, sent, conn, boot >>

\* sqlx binds a DateTime<Utc> as RFC 3339 text; a variant that writes whole
\* seconds only
BindDateTimeSecs(t) == [secs |-> t \div TicksPerSec, frac |-> 0]

\* sqlx binds a DateTime<Utc> as RFC 3339 text with as many sub-second digits
\* as the value has: the text names the whole seconds and the fraction
BindDateTime(t) == [secs |-> t \div TicksPerSec, frac |-> t % TicksPerSec]

\* FromRow reads the text of a timestamp column back into a DateTime<Utc>
DecodeDateTime(text) == text.secs * TicksPerSec + text.frac

\* a bound Option<DateTime<Utc>>, as a later SELECT decodes it: None is NULL
StoredDateTime(t) ==
    IF t = NoTime THEN NoTime ELSE DecodeDateTime(BindDateTime(t))

\* the row the INSERT of create_todo writes, as query_as::<_, Todo> reads it
InsertedTodo(todo) ==
    [todo EXCEPT !.due_at = StoredDateTime(@),
                 !.created_at = StoredDateTime(@),
                 !.updated_at = StoredDateTime(@)]

(***************************************************************************)
(* routes.rs: todos.                                                       *)
(***************************************************************************)
\* a constructor that takes the default priority from the comment on
\* TodoCreate.priority ("defaults to 0") instead of unwrap_or(1)
new_from_create_priority0(id, c, clock) ==
    [id |-> id, title |-> c.title,
     note |-> IF Has(c, "note") THEN c.note ELSE NULL,
     status |-> "todo",
     priority |-> IF Has(c, "priority") THEN c.priority ELSE 0,
     due_at |-> IF Has(c, "due_at") THEN c.due_at ELSE NoTime,
     tags |-> IF Has(c, "tags") THEN c.tags ELSE NULL,
     category_id |-> NULL,
     sort_order |-> 0,
     created_at |-> UtcNow(clock), updated_at |-> UtcNow(clock),
     deleted |-> 0]

\* Todo::new_from_create; the TodoCreate of model.rs carries no category
new_from_create(id, c, clock) ==
    [id |-> id, title |-> c.title,
     note |-> IF Has(c, "note") THEN c.note ELSE NULL,
     status |-> "todo",
     priority |-> IF Has(c, "priority") THEN c.priority ELSE 1,
     due_at |-> IF Has(c, "due_at") THEN c.due_at ELSE NoTime,
     tags |-> IF Has(c, "tags") THEN c.tags ELSE NULL,
     category_id |-> NULL,
     sort_order |-> 0,
     created_at |-> UtcNow(clock), updated_at |-> UtcNow(clock),
     deleted |-> 0]

\* POST /api/todos: new_from_create and the INSERT; the id is what
\* Uuid::new_v4 returns, an id already stored violates the primary key
create_todo_insert(r) ==
    /\ Accept(r)
    /\ CanWrite(r)
    /\ \E k \in 1..Len(TodoCreates), id \in Uuids :
         LET todo == new_from_create(id, TodoCreates[k], now) IN
           IF id \in DOMAIN todos
           THEN /\ req' = [req EXCEPT ![r] =
                      Done("create_todo", id, "Sqlx")]
                /\ todos' = todos
           ELSE /\ req' = [req EXCEPT ![r] =
                      [New("create_todo") EXCEPT !.pc = "publish", !.id = id,
                                                 !.body = TodoCreates[k],
                                                 !.t = todo,
                                                 !.post = InsertedTodo(todo)]]
                /\ todos' = (id :> InsertedTodo(todo)) @@ todos
    /\ started' = started + 1
    /\ UNCHANGED << cats, now, dbLock, faults, hub, sent, conn, boot >>

create_todo_publish(r) ==
    /\ req[r].op = "create_todo" /\ req[r].pc = "publish"
    /\ Publish(r, [type |-> "todo.created", data |-> req[r].t])
    /\ UNCHANGED << todos, cats, now, dbLock, started, faults, conn, boot >>

\* an update that replaces the record: a field the body lacks is reset
ApplyTodoUpdateReplace(t, body, clock) ==
    [t EXCEPT
       !.title = IF Has(body, "title") THEN body.title ELSE @,
       !.note = IF Has(body, "note") THEN body.note ELSE NULL,
       !.status = IF Has(body, "status") THEN body.status ELSE @,
       !.priority = IF Has(body, "priority") THEN body.priority ELSE @,
       !.due_at = IF Has(body, "due_at") THEN body.due_at ELSE NoTime,
       !.tags = IF Has(body, "tags") THEN body.tags ELSE NULL,
       !.category_id = IF Has(body, "category_id") THEN body.category_id
                       ELSE NULL,
       !.sort_order = IF Has(body, "sort_order") THEN body.sort_order ELSE @,
       !.deleted = IF Has(body, "deleted") THEN body.deleted ELSE @,
       !.updated_at = UtcNow(clock)]

\* update_todo, lines 145-172: the fields present in the body overwrite
\* the loaded row, updated_at is set to now
ApplyTodoUpdate(t, body, clock) ==
    [t EXCEPT
       !.title = IF Has(body, "title") THEN body.title ELSE @,
       !.note = IF Has(body, "note") THEN body.note ELSE @,
       !.status = IF Has(body, "status") THEN body.status ELSE @,
       !.priority = IF Has(body, "priority") THEN body.priority ELSE @,
       !.due_at = IF Has(body, "due_at") THEN body.due_at ELSE @,
       !.tags = IF Has(body, "tags") THEN body.tags ELSE @,
       !.category_id = IF Has(body, "category_id") THEN body.category_id ELSE @,
       !.sort_order = IF Has(body, "sort_order") THEN body.sort_order ELSE @,
       !.deleted = IF Has(body, "deleted") THEN body.deleted ELSE @,
       !.updated_at = UtcNow(clock)]

\* an UPDATE whose SET list lacks the title
UpdateTodoRowNoTitle(tbl, t) ==
    IF t.id \in DOMAIN tbl
    THEN [tbl EXCEPT ![t.id] =
            [@ EXCEPT !.note = t.note, !.status = t.status,
                      !.priority = t.priority, !.due_at = t.due_at,
                      !.tags = t.tags, !.category_id = t.category_id,
                      !.sort_order = t.sort_order, !.updated_at = t.updated_at,
                      !.deleted = t.deleted]]
    ELSE tbl

\* update_todo, lines 174-194: UPDATE todos SET <ten columns> WHERE id=?1
UpdateTodoRow(tbl, t) ==
    IF t.id \in DOMAIN tbl
    THEN [tbl EXCEPT ![t.id] =
            [@ EXCEPT !.title = t.title, !.note = t.note, !.status = t.status,
                      !.priority = t.priority, !.due_at = t.due_at,
                      !.tags = t.tags, !.category_id = t.category_id,
                      !.sort_order = t.sort_order, !.updated_at = t.updated_at,
                      !.deleted = t.deleted]]
    ELSE tbl

\* PUT /api/todos/{id}: the SELECT and the edit of the loaded row; pre
\* keeps, for the properties, the row as it was loaded
update_todo_load(r) ==
    /\ Accept(r)
    /\ \E k \in 1..Len(TodoUpdates), id \in TodoIds :
         req' = [req EXCEPT ![r] =
           IF id \in DOMAIN todos
           THEN [New("update_todo") EXCEPT
                   !.pc = "write", !.id = id, !.body = TodoUpdates[k],
                   !.pre = todos[id],
                   !.t = ApplyTodoUpdate(todos[id], TodoUpdates[k], now)]
           ELSE Done("update_todo", id, "NotFound")]
    /\ started' = started + 1
    /\ UNCHANGED << todos, cats, now, dbLock, faults, hub, sent, conn, boot >>

update_todo_write(r) ==
    /\ req[r].op = "update_todo" /\ req[r].pc = "write"
    /\ CanWrite(r)
    /\ todos' = UpdateTodoRow(todos, req[r].t)
    /\ req' = [req EXCEPT ![r] = [@ EXCEPT !.pc = "publish",
                                         !.post = todos'[req[r].id]]]
    /\ UNCHANGED << cats, now, dbLock, started, faults, hub, sent, conn, boot >>

update_todo_publish(r) ==
    /\ req[r].op = "update_todo" /\ req[r].pc = "publish"
    /\ Publish(r, [type |-> "todo.updated", data |-> req[r].t])
    /\ UNCHANGED << todos, cats, now, dbLock, started, faults, conn, boot >>

\* an UPDATE of status and updated_at without its WHERE id=?3
UpdateStatusRowEverywhere(tbl, t) ==
    IF t.id \in DOMAIN tbl
    THEN [i \in DOMAIN tbl |-> [tbl[i] EXCEPT !.status = t.status,
                                              !.updated_at = t.updated_at]]
    ELSE tbl

\* update_status, line 217: UPDATE todos SET status=?2, updated_at=?3
UpdateStatusRow(tbl, t) ==
    IF t.id \in DOMAIN tbl
    THEN [tbl EXCEPT ![t.id] = [@ EXCEPT !.status = t.status,
                                       !.updated_at = t.updated_at]]
    ELSE tbl

\* PATCH /api/todos/{id}/status: the query check, then the SELECT; an
\* error answer keeps, for the properties, the query it answers
update_status_load(r) ==
    /\ Accept(r)
    /\ \E k \in 1..Len(StatusQueries), id \in TodoIds :
         LET q == StatusQueries[k] IN
         req' = [req EXCEPT ![r] =
           IF ~Has(q, "status")
           THEN [Done("update_status", id, "BadRequest") EXCEPT !.body = q]
           ELSE IF id \in DOMAIN todos
           THEN [New("update_status") EXCEPT
                   !.pc = "write", !.id = id, !.body = q,
                   !.pre = todos[id],
                   !.t = [todos[id] EXCEPT !.status = q.status,
                                            !.updated_at = UtcNow(now)]]
           ELSE [Done("update_status", id, "NotFound") EXCEPT !.body = q]]
    /\ started' = started + 1
    /\ UNCHANGED << todos, cats, now, dbLock, faults, hub, sent, conn, boot >>

update_status_write(r) ==
    /\ req[r].op = "update_status" /\ req[r].pc = "write"
    /\ CanWrite(r)
    /\ todos' = UpdateStatusRow(todos, req[r].t)
    /\ req' = [req EXCEPT ![r] = [@ EXCEPT !.pc = "publish",
                                         !.post = todos'[req[r].id]]]
    /\ UNCHANGED << cats, now, dbLock, started, faults, hub, sent, conn, boot >>

update_status_publish(r) ==
    /\ req[r].op = "update_status" /\ req[r].pc = "publish"
    /\ Publish(r, [type |-> "todo.updated", data |-> req[r].t])
    /\ UNCHANGED << todos, cats, now, dbLock, started, faults, conn, boot >>

\* a soft delete that leaves updated_at as it was
SoftDeleteRowKeepsStamp(tbl, id, clock) ==
    IF id \in DOMAIN tbl
    THEN [tbl EXCEPT ![id] = [@ EXCEPT !.deleted = 1]]
    ELSE tbl

\* delete_todo, line 241: UPDATE todos SET deleted=1,
\* updated_at=CURRENT_TIMESTAMP WHERE id=?1
SoftDeleteRow(tbl, id, clock) ==
    IF id \in DOMAIN tbl
    THEN [tbl EXCEPT ![id] = [@ EXCEPT !.deleted = 1,
                                     !.updated_at = CURRENT_TIMESTAMP(clock)]]
    ELSE tbl

\* DELETE /api/todos/{id}: the existence check
delete_todo_exists(r) ==
    /\ Accept(r)
    /\ \E id \in TodoIds :
         req' = [req EXCEPT ![r] =
           IF id \in DOMAIN todos
           THEN [New("delete_todo") EXCEPT !.pc = "write", !.id = id]
           ELSE Done("delete_todo", id, "NotFound")]
    /\ started' = started + 1
    /\ UNCHANGED << todos, cats, now, dbLock, faults, hub, sent, conn, boot >>

delete_todo_write(r) ==
    /\ req[r].op = "delete_todo" /\ req[r].pc = "write"
    /\ CanWrite(r)
    /\ todos' = SoftDeleteRow(todos, req[r].id, now)
    /\ req' = [req EXCEPT ![r] = [@ EXCEPT !.pc = "publish",
                                         !.post = todos'[req[r].id]]]
    /\ UNCHANGED << cats, now, dbLock, started, faults, hub, sent, conn, boot >>

delete_todo_publish(r) ==
    /\ req[r].op = "delete_todo" /\ req[r].pc = "publish"
    /\ Publish(r, [type |-> "todo.deleted", data |-> [id |-> req[r].id]])
    /\ UNCHANGED << todos, cats, now, dbLock, started, faults, conn, boot >>

\* reorder, line 257: UPDATE todos SET sort_order=?2,
\* updated_at=CURRENT_TIMESTAMP WHERE id=?1 (no row: nothing is updated)
ReorderRow(tbl, it, clock) ==
    IF it.id \in DOMAIN tbl
    THEN [tbl EXCEPT ![it.id] = [@ EXCEPT !.sort_order = it.sort_order,
                                        !.updated_at = CURRENT_TIMESTAMP(clock)]]
    ELSE tbl

\* POST /api/todos/reorder: st.pool.begin(), a deferred BEGIN
reorder_begin(r) ==
    /\ Accept(r)
    /\ \E k \in 1..Len(ReorderBatches) :
         req' = [req EXCEPT ![r] =
           [New("reorder") EXCEPT !.pc = "tx", !.items = ReorderBatches[k],
                                  !.i = 1]]
    /\ started' = started + 1
    /\ UNCHANGED << todos, cats, now, dbLock, faults, hub, sent, conn, boot >>

\* one UPDATE of the loop, executed on the transaction: the first one takes
\* the write lock and the transaction's view of the table
reorder_update(r) ==
    /\ req[r].op = "reorder" /\ req[r].pc = "tx"
    /\ req[r].i <= Len(req[r].items)
    /\ CanWrite(r)
    /\ LET view == IF dbLock = r THEN req[r].tx ELSE todos IN
         req' = [req EXCEPT ![r] =
           [@ EXCEPT !.tx = ReorderRow(view, req[r].items[req[r].i], now),
                     !.pre = IF dbLock = r THEN @ ELSE todos,
                     !.i = @ + 1]]
    /\ dbLock' = r
    /\ UNCHANGED << todos, cats, now, started, faults, hub, sent, conn, boot >>

\* tx.commit() after the loop
reorder_commit(r) ==
    /\ req[r].op = "reorder" /\ req[r].pc = "tx"
    /\ req[r].i > Len(req[r].items)
    /\ IF dbLock = r
       THEN /\ todos' = Commit(todos, req[r].tx)
            /\ dbLock' = 0
       ELSE UNCHANGED << todos, dbLock >>
    /\ req' = [req EXCEPT ![r] = [@ EXCEPT !.pc = "publish",
                                         !.committed = TRUE]]
    /\ UNCHANGED << cats, now, started, faults, hub, sent, conn, boot >>

\* a reorder that sends its event once the loop is over, before the commit
reorder_publish_uncommitted(r) ==
    /\ req[r].op = "reorder" /\ req[r].pc = "tx"
    /\ req[r].i > Len(req[r].items)
    /\ Publish(r, [type |-> "todos.reordered", data |-> req[r].items])
    /\ UNCHANGED << todos, cats, now, dbLock, started, faults, conn, boot >>

\* lines 265-267, after tx.commit().await? has returned Ok
reorder_publish(r) ==
    /\ req[r].op = "reorder" /\ req[r].pc = "publish"
    /\ Publish(r, [type |-> "todos.reordered", data |-> req[r].items])
    /\ UNCHANGED << todos, cats, now, dbLock, started, faults, conn, boot >>

(***************************************************************************)
(* routes.rs: categories.                                                  *)
(***************************************************************************)
\* Category::new_from_create: a fresh id, both timestamps equal, not deleted
category_new_from_create(id, c, clock) ==
    [id |-> id, name |-> c.name,
     color |-> IF Has(c, "color") THEN c.color ELSE NULL,
     description |-> IF Has(c, "description") THEN c.description ELSE NULL,
     sort_order |-> IF Has(c, "sort_order") THEN c.sort_order ELSE 0,
     created_at |-> UtcNow(clock), updated_at |-> UtcNow(clock),
     deleted |-> 0]

\* POST /api/categories
create_category_insert(r) ==
    /\ Accept(r)
    /\ CanWrite(r)
    /\ \E k \in 1..Len(CategoryCreates), id \in CatIds :
         LET c == category_new_from_create(id, CategoryCreates[k], now) IN
           IF id \in DOMAIN cats
           THEN /\ req' = [req EXCEPT ![r] =
                      Done("create_category", id, "Sqlx")]
                /\ cats' = cats
           ELSE /\ req' = [req EXCEPT ![r] =
                      [New("create_category") EXCEPT !.pc = "publish",
                                                     !.id = id, !.t = c,
                                                     !.post = c]]
                /\ cats' = (id :> c) @@ cats
    /\ started' = started + 1
    /\ UNCHANGED << todos, now, dbLock, faults, hub, sent, conn, boot >>

create_category_publish(r) ==
    /\ req[r].op = "create_category" /\ req[r].pc = "publish"
    /\ Publish(r, [type |-> "category.created", data |-> req[r].t])
    /\ UNCHANGED << todos, cats, now, dbLock, started, faults, conn, boot >>

\* update_category, lines 333-348
ApplyCategoryUpdate(c, body, clock) ==
    [c EXCEPT
       !.name = IF Has(body, "name") THEN body.name ELSE @,
       !.color = IF Has(body, "color") THEN body.color ELSE @,
       !.description = IF Has(body, "description") THEN body.description ELSE @,
       !.sort_order = IF Has(body, "sort_order") THEN body.sort_order ELSE @,
       !.deleted = IF Has(body, "deleted") THEN body.deleted ELSE @,
       !.updated_at = UtcNow(clock)]

\* update_category, lines 350-365: UPDATE categories SET <six columns>
UpdateCategoryRow(tbl, c) ==
    IF c.id \in DOMAIN tbl
    THEN [tbl EXCEPT ![c.id] =
            [@ EXCEPT !.name = c.name, !.color = c.color,
                      !.description = c.description,
                      !.sort_order = c.sort_order,
                      !.updated_at = c.updated_at, !.deleted = c.deleted]]
    ELSE tbl

\* PUT /api/categories/{id}: the SELECT and the edit of the loaded row
update_category_load(r) ==
    /\ Accept(r)
    /\ \E k \in 1..Len(CategoryUpdates), id \in CatIds \cup DOMAIN cats :
         req' = [req EXCEPT ![r] =
           IF id \in DOMAIN cats
           THEN [New("update_category") EXCEPT
                   !.pc = "write", !.id = id, !.body = CategoryUpdates[k],
                   !.t = ApplyCategoryUpdate(cats[id], CategoryUpdates[k], now)]
           ELSE Done("update_category", id, "NotFound")]
    /\ started' = started + 1
    /\ UNCHANGED << todos, cats, now, dbLock, faults, hub, sent, conn, boot >>

update_category_write(r) ==
    /\ req[r].op = "update_category" /\ req[r].pc = "write"
    /\ CanWrite(r)
    /\ cats' = UpdateCategoryRow(cats, req[r].t)
    /\ req' = [req EXCEPT ![r] = [@ EXCEPT !.pc = "publish",
                                         !.post = cats'[req[r].id]]]
    /\ UNCHANGED << todos, now, dbLock, started, faults, hub, sent, conn, boot >>

update_category_publish(r) ==
    /\ req[r].op = "update_category" /\ req[r].pc = "publish"
    /\ Publish(r, [type |-> "category.updated", data |-> req[r].t])
    /\ UNCHANGED << todos, cats, now, dbLock, started, faults, conn, boot >>

\* a count that also counts the soft-deleted todos
CountAllTodosOfCategory(tbl, cid) ==
    Cardinality({id \in DOMAIN tbl : tbl[id].category_id = cid})

\* delete_category, line 386:
\* SELECT COUNT(*) FROM todos WHERE category_id=?1 AND deleted=0
CountActiveTodos(tbl, cid) ==
    Cardinality({id \in DOMAIN tbl :
                   tbl[id].category_id = cid /\ tbl[id].deleted = 0})

\* DELETE /api/categories/{id}: the existence check
delete_category_exists(r) ==
    /\ Accept(r)
    /\ \E id \in CatIds \cup DOMAIN cats :
         req' = [req EXCEPT ![r] =
           IF id \in DOMAIN cats
           THEN [New("delete_category") EXCEPT !.pc = "count", !.id = id]
           ELSE Done("delete_category", id, "NotFound")]
    /\ started' = started + 1
    /\ UNCHANGED << todos, cats, now, dbLock, faults, hub, sent, conn, boot >>

\* the count of the todos that use the category, and the guard on it
delete_category_count(r) ==
    /\ req[r].op = "delete_category" /\ req[r].pc = "count"
    /\ LET todo_count == CountActiveTodos(todos, req[r].id) IN
         req' = [req EXCEPT ![r] =
           IF todo_count > 0
           THEN Done("delete_category", req[r].id, "BadRequest")
           ELSE [@ EXCEPT !.pc = "write"]]
    /\ UNCHANGED << todos, cats, now, dbLock, started, faults, hub, sent, conn, boot >>

\* line 397: UPDATE categories SET deleted=1, updated_at=CURRENT_TIMESTAMP
delete_category_write(r) ==
    /\ req[r].op = "delete_category" /\ req[r].pc = "write"
    /\ CanWrite(r)
    /\ cats' = SoftDeleteRow(cats, req[r].id, now)
    /\ req' = [req EXCEPT ![r] = [@ EXCEPT !.pc = "publish",
                                         !.post = cats'[req[r].id]]]
    /\ UNCHANGED << todos, now, dbLock, started, faults, hub, sent, conn, boot >>

delete_category_publish(r) ==
    /\ req[r].op = "delete_category" /\ req[r].pc = "publish"
    /\ Publish(r, [type |-> "category.deleted", data |-> [id |-> req[r].id]])
    /\ UNCHANGED << todos, cats, now, dbLock, started, faults, conn, boot >>

(***************************************************************************)
(* routes.rs: the reads.                                                   *)
(***************************************************************************)
\* the rows as the open transaction has written them so far, if there is one
OpenTx == IF dbLock # 0 THEN req[dbLock].tx ELSE << >>

\* a statement on the pool runs on a connection of its own; one that sees
\* the writes an open transaction has not committed yet
ReadUncommitted(tbl) == IF dbLock # 0 THEN req[dbLock].tx ELSE tbl

\* what a SELECT on the pool sees while another connection holds an open
\* transaction: the committed rows (journal_mode=WAL, db.rs:99)
PoolRead(tbl) == tbl

\* a WHERE clause that leaves the deleted flag out
PassesStatusOnly(row, p) == ~Has(p, "status") \/ row.status = p.status

\* list_todos, lines 67-79: include_flag, and the WHERE clause
\*   (?1 IS NULL OR status = ?1) AND (?2 != 0 OR deleted = 0)
PassesFilters(row, p) ==
    LET include_flag ==
          IF Has(p, "include_deleted") /\ p.include_deleted THEN 1 ELSE 0
    IN  /\ ~Has(p, "status") \/ row.status = p.status
        /\ include_flag # 0 \/ row.deleted = 0

\* the sentinel of the ORDER BY clause, '9999-12-31T00:00:00Z', on the scale
\* of the due dates of the model
DueSentinel == 9

\* COALESCE(due_at, '9999-12-31T00:00:00Z'): due_at is stored as RFC 3339
\* text and compared as text; the texts of UTC times of the years 0000 to
\* 9999 compare as the times do, so the key is the time itself, and the
\* sentinel for a todo without due date
DueKey(due_at) == IF due_at = NoTime THEN DueSentinel ELSE due_at

\* ORDER BY priority DESC, COALESCE(due_at, ..) ASC, sort_order ASC,
\* created_at ASC
OrderKey(row) ==
    << 0 - row.priority, DueKey(row.due_at), row.sort_order, row.created_at >>

\* row a may come before row b in the result of the ORDER BY
OrderedBefore(a, b) ==
    LET ka == OrderKey(a)
        kb == OrderKey(b)
    IN  \/ ka = kb
        \/ \E i \in 1..4 : /\ ka[i] < kb[i]
                           /\ \A j \in 1..(i - 1) : ka[j] = kb[j]

\* the sequences that list every element of S once
Orderings(S) ==
    {s \in [1..Cardinality(S) -> S] :
       \A i, j \in 1..Cardinality(S) : i # j => s[i] # s[j]}

\* GET /api/todos: one SELECT; SQLite returns the rows that pass the WHERE
\* clause in an order that agrees with ORDER BY, rows with equal keys in any
\* order. The response keeps, for the properties, what an open transaction
\* had written when the SELECT ran.
list_todos(r) ==
    /\ Accept(r)
    /\ \E k \in 1..Len(ListQueries) :
         LET p == ListQueries[k]
             view == PoolRead(todos)
             ids == {id \in DOMAIN view : PassesFilters(view[id], p)}
         IN  \E s \in Orderings(ids) :
               /\ \A i, j \in 1..Len(s) :
                    i < j => OrderedBefore(view[s[i]], view[s[j]])
               /\ req' = [req EXCEPT ![r] =
                     [Done("list_todos", NULL, "Ok") EXCEPT
                        !.body = p, !.rows = [i \in 1..Len(s) |-> view[s[i]]],
                        !.tx = OpenTx]]
    /\ started' = started + 1
    /\ UNCHANGED << todos, cats, now, dbLock, faults, hub, sent, conn, boot >>

\* a lookup that leaves out the rows flagged as deleted
FindActiveById(tbl, id) ==
    IF id \in DOMAIN tbl /\ tbl[id].deleted = 0 THEN << tbl[id] >> ELSE << >>

\* SELECT * FROM <table> WHERE id=?1 with fetch_optional: the row or None
FindById(tbl, id) == IF id \in DOMAIN tbl THEN << tbl[id] >> ELSE << >>

\* GET /api/todos/{id}: Some(t) => Ok(Json(t)), None => Err(NotFound)
get_todo(r) ==
    /\ Accept(r)
    /\ \E id \in TodoIds :
         LET row == FindById(PoolRead(todos), id) IN
         req' = [req EXCEPT ![r] =
           IF row # << >>
           THEN [Done("get_todo", id, "Ok") EXCEPT !.t = row[1], !.tx = OpenTx]
           ELSE Done("get_todo", id, "NotFound")]
    /\ started' = started + 1
    /\ UNCHANGED << todos, cats, now, dbLock, faults, hub, sent, conn, boot >>

\* GET /api/categories/{id}
get_category(r) ==
    /\ Accept(r)
    /\ \E id \in CatIds \cup DOMAIN cats :
         LET row == FindById(cats, id) IN
         req' = [req EXCEPT ![r] =
           IF row # << >>
           THEN [Done("get_category", id, "Ok") EXCEPT !.t = row[1]]
           ELSE Done("get_category", id, "NotFound")]
    /\ started' = started + 1
    /\ UNCHANGED << todos, cats, now, dbLock, faults, hub, sent, conn, boot >>

\* the names of the model in the order of SQLite's BINARY collation
NameOrder ==
    << "General", "Health", "M", "N", "Personal", "Shopping", "Work" >>
NameKey(name) == CHOOSE k \in 1..Len(NameOrder) : NameOrder[k] = name

\* ORDER BY sort_order ASC, name ASC
CategoryBefore(a, b) ==
    \/ a.sort_order < b.sort_order
    \/ a.sort_order = b.sort_order /\ NameKey(a.name) <= NameKey(b.name)

\* GET /api/categories: SELECT * FROM categories WHERE deleted = 0
\* ORDER BY sort_order ASC, name ASC
list_categories(r) ==
    /\ Accept(r)
    /\ LET view == PoolRead(cats)
           ids == {id \in DOMAIN view : view[id].deleted = 0}
       IN  \E s \in Orderings(ids) :
             /\ \A i, j \in 1..Len(s) :
                  i < j => CategoryBefore(view[s[i]], view[s[j]])
             /\ req' = [req EXCEPT ![r] =
                   [Done("list_categories", NULL, "Ok") EXCEPT
                      !.rows = [i \in 1..Len(s) |-> view[s[i]]]]]
    /\ started' = started + 1
    /\ UNCHANGED << todos, cats, now, dbLock, faults, hub, sent, conn, boot >>

\* GET /api/health: answers {ok: true, db: "ok"} without touching the store
health(r) ==
    /\ Accept(r)
    /\ req' = [req EXCEPT ![r] =
          [Done("health", NULL, "Ok") EXCEPT !.t = [ok |-> TRUE, db |-> "ok"]]]
    /\ started' = started + 1
    /\ UNCHANGED << todos, cats, now, dbLock, faults, hub, sent, conn, boot >>

\* messages of the publisher of WsSpec, sent in turn
WsEvents == << [type |-> "todo.deleted", data |-> [id |-> "t1"]],
               [type |-> "todo.deleted", data |-> [id |-> "t2"]] >>

\* some handler of routes.rs runs `let _ = st.hub.tx.send(event.to_string())`
hub_send ==
    /\ Len(sent) < MaxPub
    /\ LET m == WsEvents[(Len(sent) % Len(WsEvents)) + 1] IN
         /\ hub' = HubSend(hub, m)
         /\ sent' = Append(sent, [msg |-> m, res |-> SendResult(hub)])
    /\ UNCHANGED << todos, cats, now, dbLock, req, started, faults, conn, boot >>

WsNext ==
    \/ hub_send
    \/ \E c \in Conns : handle_socket(c)
    \/ \E c \in Conns : send_task_recv(c)
    \/ \E c \in Conns : send_task_send(c)
    \/ \E c \in Conns : peer_close(c)
    \/ \E c \in Conns : recv_task_next(c)
    \/ \E c \in Conns : recv_task_end(c)
    \/ \E c \in Conns : select_return(c)

\* the hub and the connections, with the handlers reduced to their sends
WsSpec == Init /\ [][WsNext]_vars

\* the steps of the handlers
HandlerNext ==
    \/ \E r \in Reqs : statement_fails(r)
    \/ \E r \in Reqs : create_todo_insert(r)
    \/ \E r \in Reqs : create_todo_publish(r)
    \/ \E r \in Reqs : update_todo_load(r)
    \/ \E r \in Reqs : update_todo_write(r)
    \/ \E r \in Reqs : update_todo_publish(r)
    \/ \E r \in Reqs : update_status_load(r)
    \/ \E r \in Reqs : update_status_write(r)
    \/ \E r \in Reqs : update_status_publish(r)
    \/ \E r \in Reqs : delete_todo_exists(r)
    \/ \E r \in Reqs : delete_todo_write(r)
    \/ \E r \in Reqs : delete_todo_publish(r)
    \/ \E r \in Reqs : reorder_begin(r)
    \/ \E r \in Reqs : reorder_update(r)
    \/ \E r \in Reqs : reorder_commit(r)
    \/ \E r \in Reqs : reorder_publish(r)
    \/ \E r \in Reqs : create_category_insert(r)
    \/ \E r \in Reqs : create_category_publish(r)
    \/ \E r \in Reqs : update_category_load(r)
    \/ \E r \in Reqs : update_category_write(r)
    \/ \E r \in Reqs : update_category_publish(r)
    \/ \E r \in Reqs : delete_category_exists(r)
    \/ \E r \in Reqs : delete_category_count(r)
    \/ \E r \in Reqs : delete_category_write(r)
    \/ \E r \in Reqs : delete_category_publish(r)

Next == Tick \/ HandlerNext

\* the handlers of routes.rs running concurrently on the store, with no
\* WebSocket client connected
Spec == Init /\ [][Next]_vars

\* the connection that subscribes in LiveSpec
Subscribers == {"c1"}

LiveNext ==
    \/ HandlerNext
    \/ \E c \in Subscribers : handle_socket(c)
    \/ \E c \in Subscribers : send_task_recv(c)
    \/ \E c \in Subscribers : send_task_send(c)

\* the handlers together with one WebSocket client and its relay, within
\* one tick of the clock
LiveSpec == Init /\ [][LiveNext]_vars

\* the handlers together with the reads, within one tick of the clock
ReadNext ==
    \/ HandlerNext
    \/ \E r \in Reqs : list_todos(r)
    \/ \E r \in Reqs : get_todo(r)
    \/ \E r \in Reqs : get_category(r)
    \/ \E r \in Reqs : list_categories(r)
    \/ \E r \in Reqs : health(r)

ReadSpec == Init /\ [][ReadNext]_vars

\* due dates of the stored todos: none, an ordinary one, and one in the
\* afternoon of 9999-12-31, after the sentinel
DueDates == {NoTime, 1, DueSentinel + 1}

\* a todo as creates, updates and reorders can leave it
StoredTodo(id, priority, due_at, sort_order, at) ==
    [TodoRow(id, "A", NULL, sort_order, at) EXCEPT
       !.priority = priority, !.due_at = due_at]

\* a store of three todos whose sort keys are drawn freely
ListInit ==
    /\ \E p1, p2 \in {1, 2}, d1, d2, d3 \in DueDates,
          s1, s2 \in {0, 1}, c1 \in {0, 1} :
         todos = [id \in TodoIds |->
                    IF id = "t1" THEN StoredTodo("t1", p1, d1, s1, c1)
                    ELSE IF id = "t2" THEN StoredTodo("t2", p2, d2, s2, 1)
                    ELSE StoredTodo("t3", 1, d3, 0, 1)]
    /\ cats = [id \in {"k1"} |-> CategoryRow("k1", "General", 0)]
    /\ now = 1
    /\ dbLock = 0
    /\ req = [r \in Reqs |-> Idle]
    /\ started = 0
    /\ faults = 0
    /\ hub = HubNew
    /\ sent = << >>
    /\ conn = [c \in Conns |-> NoConn]
    /\ boot = Serving(0)

ListNext == \E r \in Reqs : list_todos(r)

\* list_todos on the stores of ListInit
ListSpec == ListInit /\ [][ListNext]_vars

(***************************************************************************)
(* db.rs and main.rs: the boot of the server.                              *)
(***************************************************************************)
\* restarts of the server process in one behaviour
MaxRestarts == 3

\* default_categories of init_pool: name, color, description
DefaultCategories ==
    << [name |-> "General", color |-> "#6B7280",
        description |-> "General tasks and items"],
       [name |-> "Work", color |-> "#3B82F6",
        description |-> "Work-related tasks"],
       [name |-> "Personal", color |-> "#EF4444",
        description |-> "Personal tasks and reminders"],
       [name |-> "Shopping", color |-> "#10B981",
        description |-> "Shopping lists and items"],
       [name |-> "Health", color |-> "#F59E0B",
        description |-> "Health and fitness related"] >>

\* the ids Uuid::new_v4 returns in the seeding loop: an id not stored yet
SeedUuids == {"s01", "s02", "s03", "s04", "s05", "s06", "s07", "s08", "s09",
              "s10", "s11", "s12", "s13", "s14", "s15", "s16", "s17", "s18",
              "s19", "s20"}
SeedUuid(tbl) == CHOOSE id \in SeedUuids : id \notin DOMAIN tbl

\* init_pool, line 69: SELECT COUNT(*) FROM categories WHERE deleted = 0
CountCategories(tbl) ==
    Cardinality({id \in DOMAIN tbl : tbl[id].deleted = 0})

\* the row one INSERT of the seeding loop adds
SeedRow(id, d, clock) ==
    [id |-> id, name |-> d.name, color |-> d.color,
     description |-> d.description, sort_order |-> 0,
     created_at |-> UtcNow(clock), updated_at |-> UtcNow(clock),
     deleted |-> 0]

\* a store that has never been booted: the file is new, both CREATE TABLE
\* IF NOT EXISTS have made empty tables, init_pool is at its count
BootInit ==
    /\ todos = << >>
    /\ cats = << >>
    /\ now = 1
    /\ dbLock = 0
    /\ req = [r \in Reqs |-> Idle]
    /\ started = 0
    /\ faults = 0
    /\ hub = HubNew
    /\ sent = << >>
    /\ conn = [c \in Conns |-> NoConn]
    /\ boot = [pc |-> "count", n |-> 0, runs |-> 0]

\* init_pool, lines 68-73: the count and the test on it
init_pool_count ==
    /\ boot.pc = "count"
    /\ LET category_count == CountCategories(cats) IN
         boot' = IF category_count = 0
                 THEN [boot EXCEPT !.pc = "seed", !.n = 1]
                 ELSE [boot EXCEPT !.pc = "up"]
    /\ UNCHANGED << todos, cats, now, dbLock, req, started, faults, hub, sent,
                    conn >>

\* init_pool, lines 82-95: one turn of the seeding loop
init_pool_seed ==
    /\ boot.pc = "seed"
    /\ LET id == SeedUuid(cats) IN
         cats' = (id :> SeedRow(id, DefaultCategories[boot.n], now)) @@ cats
    /\ boot' = IF boot.n < Len(DefaultCategories)
               THEN [boot EXCEPT !.n = @ + 1]
               ELSE [boot EXCEPT !.pc = "up", !.n = 0]
    /\ UNCHANGED << todos, now, dbLock, req, started, faults, hub, sent, conn >>

\* the process ends while no request is running and main starts again on
\* the same database file: a new hub, no connection, init_pool from its top
restart ==
    /\ boot.pc = "up"
    /\ boot.runs < MaxRestarts
    /\ \A r \in Reqs : req[r].pc \in {"idle", "done"}
    /\ boot' = [pc |-> "count", n |-> 0, runs |-> boot.runs + 1]
    /\ req' = [r \in Reqs |-> Idle]
    /\ started' = 0
    /\ hub' = HubNew
    /\ sent' = << >>
    /\ conn' = [c \in Conns |-> NoConn]
    /\ UNCHANGED << todos, cats, now, dbLock, faults >>

BootNext ==
    \/ init_pool_count
    \/ init_pool_seed
    \/ restart
    \/ \E r \in Reqs : delete_category_exists(r)
    \/ \E r \in Reqs : delete_category_count(r)
    \/ \E r \in Reqs : delete_category_write(r)
    \/ \E r \in Reqs : delete_category_publish(r)

\* boots of the server on one database file, with categories deleted
\* between them
BootSpec == BootInit /\ [][BootNext]_vars

(***************************************************************************)
(* Properties.                                                             *)
(***************************************************************************)
Max(S) == CHOOSE x \in S : \A y \in S : y <= x

\* the indexes of the pairs of a batch that name id
PairsFor(items, id) == {k \in 1..Len(items) : items[k].id = id}

\* a row differs from another at most in sort_order and updated_at
SameButOrder(a, b) ==
    [a EXCEPT !.sort_order = 0, !.updated_at = 0]
      = [b EXCEPT !.sort_order = 0, !.updated_at = 0]

\* C1: reorder is all-or-nothing. The step in which a reorder request fails
\* leaves table todos as it was before the batch's first UPDATE; the step in
\* which it commits leaves every row named by the batch with the sort_order
\* of the last pair that names it, and every other row untouched.
C1_ReorderAllOrNothing ==
    [][\A r \in Reqs :
         (req[r].op = "reorder" /\ req[r].pc = "tx") =>
           /\ (req'[r].pc = "done" =>
                 /\ todos' = todos
                 /\ (dbLock = r => todos' = req[r].pre))
           /\ (req'[r].pc = "publish" =>
                 /\ DOMAIN todos' = DOMAIN todos
                 /\ \A id \in DOMAIN todos :
                      LET ks == PairsFor(req[r].items, id) IN
                        IF ks = {} THEN todos'[id] = todos[id]
                        ELSE /\ todos'[id].sort_order
                                  = req[r].items[Max(ks)].sort_order
                             /\ SameButOrder(todos'[id], todos[id]))
    ]_vars

\* a batch of three whose third UPDATE failed after two had been executed
C1_Witness ==
    \E r \in Reqs :
      /\ req[r].pc = "done" /\ req[r].op = "reorder"
      /\ req[r].result = "Sqlx"
      /\ Len(req[r].items) = 3 /\ req[r].i = 3
      /\ todos["t2"].sort_order = 0

\* number of todos.reordered events among the sends
NumReordered(log) ==
    Cardinality({k \in 1..Len(log) : log[k].msg.type = "todos.reordered"})

\* C2: the todos.reordered event of a batch is sent only after the batch's
\* transaction has committed, and exactly once: a step that adds such an
\* event is the publish step of a reorder request whose commit has returned
\* and which holds no open transaction, it adds one event carrying the
\* batch, and a reorder request that ends otherwise sends nothing.
C2_ReorderedAfterCommit ==
    [][/\ NumReordered(sent') # NumReordered(sent) =>
            \E r \in Reqs :
              /\ req[r].op = "reorder" /\ req[r].pc = "publish"
              /\ req[r].committed /\ dbLock # r
              /\ req'[r].pc = "done" /\ req'[r].result = "Ok"
              /\ sent' = Append(sent, sent'[Len(sent')])
              /\ sent'[Len(sent')].msg.data = req[r].items
       /\ \A r \in Reqs :
            (req[r].op = "reorder" /\ req[r].pc # "done"
               /\ req'[r].pc = "done") =>
              IF req[r].committed
              THEN NumReordered(sent') = NumReordered(sent) + 1
              ELSE sent' = sent /\ req'[r].result # "Ok"
    ]_vars

\* a committed batch of two pairs, applied, whose event has been sent
C2_Witness ==
    /\ todos["t1"].sort_order = 1 /\ todos["t2"].sort_order = 2
    /\ \E r \in Reqs : /\ req[r].op = "reorder" /\ req[r].pc = "done"
                       /\ req[r].result = "Ok"
    /\ NumReordered(sent) = 1

\* C3: no category's deleted flag goes from 0 to 1 while a todo that is not
\* deleted references the category.
C3_NoDeleteWhileReferenced ==
    [][\A c \in DOMAIN cats :
         (cats[c].deleted = 0 /\ cats'[c].deleted = 1) =>
           ~ \E t \in DOMAIN todos :
               todos[t].category_id = c /\ todos[t].deleted = 0
    ]_vars

\* the todos that are not deleted and reference category c
ActiveRefs(c) ==
    {t \in DOMAIN todos : todos[t].category_id = c /\ todos[t].deleted = 0}

\* C4: delete_category on a stored category. Its guard answers BadRequest
\* exactly when a todo that is not deleted references the category, and then
\* no row changes and nothing is sent; otherwise it goes on to set deleted=1
\* on that category alone and to send one category.deleted event naming it.
C4_DeleteCategoryGuard ==
    [][\A r \in Reqs :
         (req[r].op = "delete_category" /\ req[r].pc # "done") =>
           /\ (req[r].pc = "count" /\ req'[r].pc # "count"
                 /\ req'[r].result # "Sqlx") =>
                /\ (req'[r].result = "BadRequest") <=> (ActiveRefs(req[r].id) # {})
                /\ (req'[r].pc = "write") <=> (ActiveRefs(req[r].id) = {})
                /\ todos' = todos /\ cats' = cats /\ sent' = sent
           /\ (req[r].pc = "write" /\ req'[r].pc = "publish") =>
                /\ cats'[req[r].id].deleted = 1
                /\ \A c \in DOMAIN cats : c # req[r].id => cats'[c] = cats[c]
                /\ todos' = todos /\ sent' = sent
           /\ (req[r].pc = "publish" /\ req'[r].pc = "done") =>
                /\ req'[r].result = "Ok"
                /\ sent' = Append(sent, sent'[Len(sent')])
                /\ sent'[Len(sent')].msg.type = "category.deleted"
                /\ sent'[Len(sent')].msg.data.id = req[r].id
                /\ todos' = todos /\ cats' = cats
    ]_vars

\* category k1 deleted by delete_category while the only todo that names it
\* is itself soft-deleted
C4_Witness ==
    /\ \E r \in Reqs : /\ req[r].op = "delete_category" /\ req[r].pc = "done"
                       /\ req[r].id = "k1" /\ req[r].result = "Ok"
    /\ cats["k1"].deleted = 1
    /\ todos["t1"].category_id = "k1" /\ todos["t1"].deleted = 1

\* the handlers whose event carries the whole entity
EntityOps == {"create_todo", "update_todo", "update_status",
              "create_category", "update_category"}

\* C5: a mutation that succeeds sends exactly one event, and for a
\* subscriber that was subscribed before the request came in the data of a
\* created or updated event is the row as it was persisted right after that
\* mutation's write.
C5_EventIsPersistedState ==
    [][\A r \in Reqs :
         (req[r].pc = "publish" /\ req'[r].pc = "done") =>
           /\ sent' = Append(sent, sent'[Len(sent')])
           /\ (req[r].op \in EntityOps /\ req[r].subs > 0
                  /\ sent'[Len(sent')].res = "Ok") =>
                sent'[Len(sent')].msg.data = req[r].post
    ]_vars

\* the index in the log of sends of the message stored at hub position p
Stored(log) == {k \in 1..Len(log) : log[k].res = "Ok"}
StoredIndex(log, p) ==
    CHOOSE k \in Stored(log) :
      Cardinality({j \in Stored(log) : j <= k}) = p + 1

SameEvent(a, b) == a.type = b.type /\ a.data = b.data

\* what connection c has taken from the hub so far, oldest first
Taken(c) == conn[c].log \o conn[c].held

\* C6: whatever a connection takes from the hub was sent after the
\* connection subscribed, however many sends were made before.
C6_OnlyLaterEvents ==
    \A c \in Conns : \A k \in 1..Len(Taken(c)) :
      /\ Taken(c)[k].pos < hub.pos
      /\ StoredIndex(sent, Taken(c)[k].pos) > conn[c].since

\* a peer that subscribed after more sends than the ring holds and has
\* received a message since
C6_Witness ==
    \E c \in Conns : conn[c].since > Capacity /\ Len(conn[c].log) > 0

C8_RelaySurvivesOverflow ==
    \A c \in Conns : conn[c].send = "done" => conn[c].peer = "closed"

\* the step a handler takes from pc = "publish"
PublishStep(r) ==
    \/ create_todo_publish(r) \/ update_todo_publish(r)
    \/ update_status_publish(r) \/ delete_todo_publish(r)
    \/ reorder_publish(r) \/ create_category_publish(r)
    \/ update_category_publish(r) \/ delete_category_publish(r)

\* C9: the send of a handler never blocks and never fails the request: a
\* handler that has written can always take its send step, the step answers
\* Ok and changes no row whatever the send returned, and a send with no
\* subscriber leaves the hub as it was.
C9_PublishNeverFails ==
    /\ [](\A r \in Reqs : req[r].pc = "publish" => ENABLED PublishStep(r))
    /\ [][\A r \in Reqs :
            (req[r].pc = "publish" /\ req'[r].pc = "done") =>
              /\ req'[r].result = "Ok"
              /\ todos' = todos /\ cats' = cats
              /\ hub.rx_cnt = 0 => hub' = hub
       ]_vars

\* both requests answered Ok although the subscriber, which has taken
\* nothing, is further behind than the ring holds: the second send found
\* the ring full
C9_Witness ==
    /\ \A r \in Reqs : req[r].pc = "done" /\ req[r].result = "Ok"
    /\ Len(sent) = 2
    /\ conn["c1"].rx /\ hub.pos - conn["c1"].next > Capacity

\* C10: once handle_socket has returned, both tasks of the connection have
\* ended and its Receiver is dropped.
C10_BothTornDown ==
    \A c \in Conns :
      conn[c].hs = "returned" =>
        conn[c].send = "done" /\ conn[c].recv = "done" /\ ~conn[c].rx

\* the columns of a todo other than updated_at
TodoFields == {"id", "title", "note", "status", "priority", "due_at", "tags",
               "category_id", "sort_order", "created_at", "deleted"}

\* C11 as claimed: the write of a successful update_todo or update_status
\* overwrites in the persisted row exactly the fields present in the
\* payload, sets updated_at to the time the handler took, and leaves every
\* field absent from the payload with the value the persisted row had right
\* before the write.
C11_PartialUpdate ==
    [][\A r \in Reqs :
         (req[r].op \in {"update_todo", "update_status"}
            /\ req[r].pc = "write" /\ req'[r].pc = "publish") =>
           /\ todos'[req[r].id].updated_at = req[r].t.updated_at
           /\ \A f \in TodoFields :
                todos'[req[r].id][f] = IF Has(req[r].body, f)
                                       THEN req[r].body[f]
                                       ELSE todos[req[r].id][f]
    ]_vars

\* C11, amended: the write of update_todo sets every field present in the
\* payload to the payload's value and every absent field to the value the
\* row had when the request loaded it, which is the value persisted right
\* before the write whenever no other write to the todo came in between;
\* the write of update_status sets status and leaves every other field as
\* persisted right before the write. Both set updated_at to the time the
\* handler took, and neither touches another row.
C11_PartialUpdateOfLoadedRow ==
    [][\A r \in Reqs :
         (req[r].op \in {"update_todo", "update_status"}
            /\ req[r].pc = "write" /\ req'[r].pc = "publish") =>
           LET id == req[r].id
               kept == IF req[r].op = "update_todo" THEN req[r].pre
                       ELSE todos[id]
           IN  /\ todos'[id].updated_at = req[r].t.updated_at
               /\ \A f \in TodoFields :
                    todos'[id][f] = IF Has(req[r].body, f) THEN req[r].body[f]
                                    ELSE kept[f]
               /\ (todos[id] = req[r].pre) =>
                    \A f \in TodoFields \ DOMAIN req[r].body :
                      todos'[id][f] = todos[id][f]
               /\ \A i \in DOMAIN todos : i # id => todos'[i] = todos[i]
    ]_vars

\* an update_todo of t1 without status that loaded the row, then wrote
\* after an update_status had set the status to "done": the status is the
\* loaded one again
C11_Witness ==
    \E r, q \in Reqs :
      /\ req[r].op = "update_todo" /\ req[r].pc = "publish"
      /\ req[r].id = "t1" /\ ~Has(req[r].body, "status")
      /\ req[q].op = "update_status" /\ req[q].pc = "publish"
      /\ req[q].id = "t1"
      /\ todos["t1"].status = "todo"

\* the request slot r takes a request of handler op in this step
Accepts(r, op) == started' = started + 1 /\ FreeSlot(r) /\ req'[r].op = op

\* the elements of a sequence
Range(s) == {s[i] : i \in 1..Len(s)}

\* C12: list_todos returns, each once, exactly the stored todos that pass
\* the filters: those that are not deleted, or all when include_deleted is
\* true, and among them those with the status asked for when one is given.
C12_ListFilters ==
    [][\A r \in Reqs :
         Accepts(r, "list_todos") =>
           LET p == req'[r].body
               rows == req'[r].rows
               all == Has(p, "include_deleted") /\ p.include_deleted
           IN  /\ req'[r].pc = "done" /\ req'[r].result = "Ok"
               /\ Cardinality(Range(rows)) = Len(rows)
               /\ Range(rows) =
                    {todos[id] : id \in
                       {i \in DOMAIN todos :
                          /\ all \/ todos[i].deleted = 0
                          /\ Has(p, "status") => todos[i].status = p.status}}
    ]_vars

\* a default listing that leaves out the one deleted todo of the store
C12_Witness ==
    \E r \in Reqs :
      /\ req[r].op = "list_todos" /\ req[r].pc = "done"
      /\ ~Has(req[r].body, "include_deleted") /\ ~Has(req[r].body, "status")
      /\ \E id \in DOMAIN todos : todos[id].deleted = 1
      /\ Len(req[r].rows) = Cardinality(DOMAIN todos) - 1
      /\ \A i \in 1..Len(req[r].rows) : req[r].rows[i].deleted = 0

\* the order the listing is to have: priority descending, then due date
\* ascending with the todos without one last, then sort_order, then
\* created_at ascending
ListedBefore(a, b) ==
    \/ a.priority > b.priority
    \/ /\ a.priority = b.priority
       /\ \/ a.due_at # NoTime /\ (b.due_at = NoTime \/ a.due_at < b.due_at)
          \/ /\ a.due_at = b.due_at
             /\ \/ a.sort_order < b.sort_order
                \/ /\ a.sort_order = b.sort_order
                   /\ a.created_at <= b.created_at

\* C13: the sequence list_todos returns is sorted by priority descending,
\* then due_at ascending with every todo that lacks a due date after every
\* todo that has one, then sort_order ascending, then created_at ascending.
C13_ListOrder ==
    [][\A r \in Reqs :
         Accepts(r, "list_todos") =>
           \A i, j \in 1..Len(req'[r].rows) :
             i < j => ListedBefore(req'[r].rows[i], req'[r].rows[j])
    ]_vars

\* C14: no todo and no category is ever removed from the store, and a get
\* by an id that is stored answers with that row, deleted or not; it answers
\* NotFound only for an id that is not stored, which by the first part is
\* an id that never was.
C14_StaysAddressable ==
    [][/\ DOMAIN todos \subseteq DOMAIN todos'
       /\ DOMAIN cats \subseteq DOMAIN cats'
       /\ \A r \in Reqs :
            /\ Accepts(r, "get_todo") =>
                 IF req'[r].id \in DOMAIN todos
                 THEN req'[r].result = "Ok" /\ req'[r].t = todos[req'[r].id]
                 ELSE req'[r].result = "NotFound"
            /\ Accepts(r, "get_category") =>
                 IF req'[r].id \in DOMAIN cats
                 THEN req'[r].result = "Ok" /\ req'[r].t = cats[req'[r].id]
                 ELSE req'[r].result = "NotFound"
    ]_vars

\* a get of todo t1 answered with the row after delete_todo had flagged it
C14_Witness ==
    /\ \E r \in Reqs : /\ req[r].op = "delete_todo" /\ req[r].pc = "done"
                       /\ req[r].id = "t1" /\ req[r].result = "Ok"
    /\ \E r \in Reqs : /\ req[r].op = "get_todo" /\ req[r].pc = "done"
                       /\ req[r].id = "t1" /\ req[r].result = "Ok"
                       /\ req[r].t.deleted = 1

C16_DeleteTodoUnconditional ==
    [][\A r \in Reqs :
         /\ Accepts(r, "delete_todo") =>
              IF req'[r].id \in DOMAIN todos
              THEN req'[r].pc = "write"
              ELSE req'[r].pc = "done" /\ req'[r].result = "NotFound"
         /\ (req[r].op = "delete_todo" /\ req[r].pc # "done") =>
              LET id == req[r].id IN
              /\ req'[r].pc = "done" => req'[r].result \in {"Ok", "Sqlx"}
              /\ (req[r].pc = "write" /\ req'[r].pc = "publish") =>
                   /\ todos'[id].deleted = 1
                   /\ todos'[id].updated_at <= now
                   /\ todos'[id].updated_at > now - TicksPerSec
                   /\ \A f \in TodoFields \ {"deleted"} :
                        todos'[id][f] = todos[id][f]
                   /\ \A i \in DOMAIN todos : i # id => todos'[i] = todos[i]
                   /\ DOMAIN todos' = DOMAIN todos
                   /\ sent' = sent
              /\ (req[r].pc = "publish" /\ req'[r].pc = "done") =>
                   /\ req'[r].result = "Ok"
                   /\ sent' = Append(sent, sent'[Len(sent')])
                   /\ sent'[Len(sent')].msg = [type |-> "todo.deleted",
                                               data |-> [id |-> id]]
                   /\ todos' = todos
    ]_vars

\* todo t1, which references category k1, deleted by two requests that both
\* succeeded, the later write in the second after the todo's creation
C16_Witness ==
    /\ \A r \in Reqs : /\ req[r].op = "delete_todo" /\ req[r].pc = "done"
                       /\ req[r].id = "t1" /\ req[r].result = "Ok"
    /\ todos["t1"].category_id = "k1" /\ todos["t1"].deleted = 1
    /\ todos["t1"].updated_at > todos["t1"].created_at
    /\ Len(sent) = 2

\* the names of the categories that are stored and not deleted
ActiveNames(tbl) == {tbl[id].name : id \in {i \in DOMAIN tbl : tbl[i].deleted = 0}}

\* C17: init_pool seeds exactly when the store holds no category row at
\* all: on the empty store of a first boot it goes on to insert the five
\* default categories, and on a store that holds category rows, deleted or
\* not, it adds none.
C17_SeedOnlyOnFirstBoot ==
    [][/\ boot.pc = "count" =>
            /\ (boot'.pc = "seed") <=> (DOMAIN cats = {})
            /\ cats' = cats
       /\ (boot.pc = "seed" /\ boot'.pc = "up") =>
            /\ Cardinality(DOMAIN cats') = Len(DefaultCategories)
            /\ ActiveNames(cats') =
                 {"General", "Work", "Personal", "Shopping", "Health"}
    ]_vars

\* the rows a read that ends in this step returns
ReadRows(r) ==
    IF req'[r].op = "list_todos" THEN Range(req'[r].rows)
    ELSE IF req'[r].result = "Ok" THEN {req'[r].t}
    ELSE {}

\* C18: a list_todos or get_todo that runs while a reorder batch has an open
\* transaction returns every row as it was before the first UPDATE of the
\* batch: none of the batch's pairs is visible before the commit, which
\* applies them all in one step.
C18_NoHalfAppliedBatch ==
    [][\A r \in Reqs :
         (Accepts(r, "list_todos") \/ Accepts(r, "get_todo")) =>
           \A q \in Reqs :
             (req[q].op = "reorder" /\ req[q].pc = "tx" /\ dbLock = q) =>
               \A row \in ReadRows(r) : row = req[q].pre[row.id]
    ]_vars

\* a listing taken while a batch had executed some of its UPDATEs: it shows
\* a row with the sort_order from before the batch
C18_Witness ==
    \E r \in Reqs :
      /\ req[r].op = "list_todos" /\ req[r].pc = "done"
      /\ req[r].tx # << >>
      /\ \E i \in 1..Len(req[r].rows) :
           req[r].rows[i].sort_order # req[r].tx[req[r].rows[i].id].sort_order

\* C19: every pair of a todos.reordered event names a todo that is stored,
\* that is, a row the batch's UPDATE for that pair has matched: pairs for
\* ids that do not exist are not in the event.
C19_ReorderedPairsApplied ==
    [][\A r \in Reqs :
         (req[r].op = "reorder" /\ req[r].pc = "publish"
            /\ req'[r].pc = "done") =>
           LET data == sent'[Len(sent')].msg.data IN
             \A k \in 1..Len(data) : data[k].id \in DOMAIN todos
    ]_vars

\* C20: updates of one entity are last-writer-wins with no conflict
\* detection. The write of an update_todo or update_category leaves the
\* persisted row equal to the row that request holds, whatever another
\* request has written since it loaded; and an update that found its row is
\* never rejected: it answers Ok unless one of its statements fails in the
\* storage.
C20_LastWriterWins ==
    [][\A r \in Reqs :
         (req[r].op \in {"update_todo", "update_category"}
            /\ req[r].pc \in {"write", "publish"}) =>
           /\ (req[r].pc = "write" /\ req'[r].pc = "publish") =>
                IF req[r].op = "update_todo"
                THEN todos'[req[r].id] = req[r].t
                ELSE cats'[req[r].id] = req[r].t
           /\ req'[r].pc = "done" =>
                \/ req'[r].result = "Ok"
                \/ req'[r].result = "Sqlx" /\ faults' = faults + 1
    ]_vars

\* two updates of todo t1 that overlapped, both answered Ok: the row is the
\* one the later writer held, with the title the other had replaced
C20_Witness ==
    /\ \A r \in Reqs : /\ req[r].op = "update_todo" /\ req[r].pc = "done"
                       /\ req[r].id = "t1" /\ req[r].result = "Ok"
    /\ Len(sent) = 2
    /\ sent[1].msg.data.title = "B"
    /\ sent[2].msg.data.deleted = 1
    /\ todos["t1"].title = "A" /\ todos["t1"].deleted = 1

\* number of sends stored in the hub among the first n of the log
StoredBefore(log, n) == Cardinality({k \in Stored(log) : k <= n})

\* C21: a subscriber that does not consume holds up neither the publisher
\* nor the other subscribers. Whatever the connections do, the next send can
\* be made, the hub holds at most Capacity messages, and a relay that has
\* not fallen more than Capacity behind has taken every message stored
\* since its subscription, in order and without a gap, and can take the
\* next one as soon as there is one.
C21_SlowSubscriberBlocksNobody ==
    /\ Len(sent) < MaxPub => ENABLED hub_send
    /\ Len(hub.buf) <= Capacity
    /\ \A c \in Conns :
         (conn[c].rx /\ hub.pos - conn[c].next <= Capacity) =>
           /\ \A k \in 1..Len(Taken(c)) :
                Taken(c)[k].pos = StoredBefore(sent, conn[c].since) + k - 1
           /\ conn[c].next = StoredBefore(sent, conn[c].since) + Len(Taken(c))
           /\ (conn[c].send = "recv" /\ conn[c].next < hub.pos) =>
                ENABLED send_task_recv(c)

\* connection c1 has taken nothing and is further behind than the ring
\* holds, while c2 has been sent two messages and waits for the next
C21_Witness ==
    /\ conn["c1"].rx /\ Taken("c1") = << >>
    /\ hub.pos - conn["c1"].next > Capacity
    /\ conn["c2"].send = "recv" /\ Len(conn["c2"].log) >= 2
    /\ conn["c2"].next = hub.pos

\* the handlers that look their entity up by id before they do anything else
ById == {"update_todo", "delete_todo", "update_category", "delete_category",
         "get_todo", "get_category"}

\* the table a handler works on
TableOf(op) ==
    IF op \in {"update_category", "delete_category", "get_category"}
    THEN cats ELSE todos

\* C22: errors. Only a request that answers Ok sends an event, and it sends
\* it in its last step; a request that ends in an error has sent nothing. A
\* step that ends a request with NotFound or BadRequest changes no row.
\* update, delete and get of an id that is not stored answer NotFound (404);
\* update_status answers BadRequest (400) exactly when the query has no
\* status, stored id or not, and NotFound for an unknown id otherwise. A
\* statement that fails in the storage ends its request at once with a
\* server fault (500): the statement is not tried again.
C22_ErrorsPublishNothing ==
    [][/\ sent' # sent =>
            \E r \in Reqs : /\ req[r].pc = "publish" /\ req'[r].pc = "done"
                            /\ req'[r].result = "Ok" /\ req'[r].status = 200
       /\ \A r \in Reqs :
            /\ (req'[r] # req[r] /\ req'[r].pc = "done"
                  /\ req'[r].result # "Ok") =>
                 /\ sent' = sent
                 /\ req[r].pc # "publish"
                 /\ req'[r].result \in {"NotFound", "BadRequest"} =>
                      /\ todos' = todos /\ cats' = cats
                      /\ req[r].pc \in {"idle", "done", "count"}
                 /\ req'[r].status =
                      IF req'[r].result = "NotFound" THEN 404
                      ELSE IF req'[r].result = "BadRequest" THEN 400 ELSE 500
            /\ \A op \in ById :
                 (Accepts(r, op) /\ req'[r].id \notin DOMAIN TableOf(op)) =>
                   req'[r].pc = "done" /\ req'[r].result = "NotFound"
            /\ Accepts(r, "update_status") =>
                 /\ (req'[r].result = "BadRequest")
                      <=> ~Has(req'[r].body, "status")
                 /\ (Has(req'[r].body, "status")
                       /\ req'[r].id \notin DOMAIN todos) =>
                      req'[r].result = "NotFound"
            /\ (faults' # faults /\ req'[r] # req[r]) =>
                 /\ req'[r].pc = "done" /\ req'[r].result = "Sqlx"
                 /\ req'[r].status = 500
    ]_vars

\* a status update without status on an id that is not stored, answered
\* BadRequest, and a storage failure answered as a server fault, with the
\* store as it was at the start and nothing sent
C22_Witness ==
    /\ \E r \in Reqs : /\ req[r].op = "update_status" /\ req[r].pc = "done"
                       /\ req[r].id \notin DOMAIN todos
                       /\ req[r].result = "BadRequest"
    /\ \E r \in Reqs : req[r].pc = "done" /\ req[r].status = 500
    /\ sent = << >>

\* C23: every stored todo and category has updated_at >= created_at, and
\* no step changes the created_at of a stored row.
C23_UpdatedNotBeforeCreated ==
    /\ [](/\ \A id \in DOMAIN todos :
               todos[id].updated_at >= todos[id].created_at
          /\ \A id \in DOMAIN cats :
               cats[id].updated_at >= cats[id].created_at)
    /\ [][/\ \A id \in DOMAIN todos :
               todos'[id].created_at = todos[id].created_at
          /\ \A id \in DOMAIN cats :
               cats'[id].created_at = cats[id].created_at
       ]_vars

\* C24: the relay of a connection hands each message it takes from its
\* subscription to the peer before it takes the next one, and ends on the
\* first send that fails: that step forwards nothing, ends the task and
\* drops its Receiver; a relay that has ended forwards nothing more, and
\* handle_socket can return, which closes the connection.
C24_RelayEndsOnSendFailure ==
    /\ [](\A c \in Conns :
            /\ conn[c].held # << >> <=> conn[c].send = "sending"
            /\ (conn[c].send = "done" /\ conn[c].hs = "select") =>
                 ENABLED select_return(c))
    /\ [][\A c \in Conns :
            /\ (conn[c].send = "sending" /\ conn'[c].send # "sending") =>
                 IF conn[c].peer = "open"
                 THEN /\ conn'[c].log = Append(conn[c].log, conn[c].held[1])
                      /\ conn'[c].send = "recv"
                 ELSE /\ conn'[c].log = conn[c].log
                      /\ conn'[c].send = "done" /\ ~conn'[c].rx
                      /\ hub'.rx_cnt = hub.rx_cnt - 1
            /\ conn[c].send = "done" =>
                 /\ conn'[c].send = "done"
                 /\ conn'[c].log = conn[c].log
                 /\ conn'[c].next = conn[c].next
       ]_vars

\* a relay that forwarded one message, failed to send the next one to a peer
\* that had gone, and ended while more messages were sent; handle_socket has
\* returned
C24_Witness ==
    \E c \in Conns :
      /\ conn[c].send = "done" /\ conn[c].peer = "closed"
      /\ Len(conn[c].log) = 1
      /\ conn[c].next = 2 /\ hub.pos > conn[c].next
      /\ conn[c].hs = "returned"

\* C25: a get_todo that is the first request after a successful create_todo
\* and asks for the id the create returned answers with the entity the create
\* returned (the one its todo.created event carries), equal in every field:
\* id, title, note, status, priority, due_at, tags, sort_order, created_at,
\* updated_at and deleted.
C25_CreateThenGet ==
    [][\A r \in Reqs :
         ( /\ started = 1 /\ Len(sent) = 1
           /\ sent[1].msg.type = "todo.created"
           /\ \A q \in Reqs : req[q].pc \in {"idle", "done"}
           /\ Accepts(r, "get_todo")
           /\ req'[r].id = sent[1].msg.data.id ) =>
             /\ req'[r].result = "Ok"
             /\ req'[r].t = sent[1].msg.data
    ]_vars

\* get_todo has answered with the todo a create with a due date made just
\* before it, created at an instant that is not a whole second
C25_Witness ==
    /\ started = 2 /\ Len(sent) = 1 /\ sent[1].msg.type = "todo.created"
    /\ \E r \in Reqs :
         /\ req[r].op = "get_todo" /\ req[r].pc = "done"
         /\ req[r].result = "Ok"
         /\ req[r].t = sent[1].msg.data
         /\ req[r].t.created_at % TicksPerSec # 0
         /\ req[r].t.due_at # NoTime

\* the places in the log of the updated events that carry the entity id
EventsOf(log, id) ==
    {k \in 1..Len(log) :
       /\ log[k].msg.type \in {"todo.updated", "category.updated"}
       /\ log[k].msg.data.id = id}

\* the entity id was written by create and update handlers only
OnlyUpdated(log, id) ==
    \A k \in 1..Len(log) :
      /\ log[k].msg.type \in {"todo.deleted", "category.deleted"} =>
           log[k].msg.data.id # id
      /\ log[k].msg.type = "todos.reordered" =>
           \A j \in 1..Len(log[k].msg.data) : log[k].msg.data[j].id # id

\* C26: events about one entity are published in the order their writes
\* reached the store, so that once every handler has returned, the last
\* updated event that reached the subscribers for an entity that only create
\* and update handlers wrote carries the row the store holds for it.
C26_LastEventIsFinalState ==
    (\A r \in Reqs : req[r].pc \in {"idle", "done"}) =>
       \A id \in (DOMAIN todos \cup DOMAIN cats) :
         (EventsOf(sent, id) # {} /\ OnlyUpdated(sent, id)) =>
            LET last == Max(EventsOf(sent, id)) IN
              sent[last].res = "Ok" => sent[last].msg.data =
                 IF id \in DOMAIN todos THEN todos[id] ELSE cats[id]

SingleTodoOps == {"create_todo", "update_todo", "update_status", "delete_todo"}
SingleCategoryOps == {"create_category", "update_category", "delete_category"}
ReadOps == {"list_todos", "get_todo", "list_categories", "get_category",
            "health"}

\* every row of the table but the one with this id is as it was, and no row
\* with another id has appeared or gone
OthersUnchanged(old, new, id) ==
    /\ DOMAIN old \subseteq DOMAIN new
    /\ DOMAIN new \subseteq DOMAIN old \cup {id}
    /\ \A i \in DOMAIN old \ {id} : new[i] = old[i]

\* C27: a step of a handler that creates, updates, sets the status of or
\* soft-deletes one todo or one category changes no persisted row but that
\* one; list_todos, get_todo, list_categories, get_category and health change
\* no row and publish no event; a soft-delete of a todo or of a category
\* changes the category_id of no todo.
C27_FrameEffects ==
    [][\A r \in Reqs :
         /\ (req'[r] # req[r] /\ req'[r].op \in SingleTodoOps) =>
              /\ cats' = cats
              /\ OthersUnchanged(todos, todos', req'[r].id)
         /\ (req'[r] # req[r] /\ req'[r].op \in SingleCategoryOps) =>
              /\ todos' = todos
              /\ OthersUnchanged(cats, cats', req'[r].id)
         /\ (req'[r] # req[r] /\ req'[r].op \in ReadOps) =>
              /\ todos' = todos /\ cats' = cats
              /\ sent' = sent /\ hub' = hub
         /\ (req'[r] # req[r]
               /\ req'[r].op \in {"delete_todo", "delete_category"}) =>
              \A i \in DOMAIN todos :
                /\ i \in DOMAIN todos'
                /\ todos'[i].category_id = todos[i].category_id
    ]_vars

\* todo t1 of category k1 was soft-deleted, then the emptied category k1, and
\* t1 still names k1 while t2 is as it was
C27_Witness ==
    /\ todos["t1"].deleted = 1 /\ todos["t1"].category_id = "k1"
    /\ cats["k1"].deleted = 1
    /\ todos["t2"].deleted = 0 /\ todos["t2"].updated_at = 0
    /\ \E r \in Reqs : req[r].op = "delete_category" /\ req[r].pc = "done"
                       /\ req[r].result = "Ok"

====
